---- MODULE Spec2Model ----
(***************************************************************************)
(* NetDAQ channel configuration: construction-time validation and binary   *)
(* encoding of the channel variants (config.py, lib/config/channels/       *)
(* analog.py) and the device configuration bitfield.                       *)
(***************************************************************************)
EXTENDS Integers, Sequences, FiniteSets, TLC

(***************************************************************************)
(* Bounds of the model.                                                    *)
(***************************************************************************)
\* Significand width of the modelled binary floating point.  Python floats
\* are IEEE-754 doubles (53 bits); the model keeps the format (sign,
\* exponent, significand, round-to-nearest-even after every operation) and
\* scales the width down so that exact intermediate products fit TLC integers.
Prec == 12
\* Significand bits lost when a double is narrowed to a 4-byte float
\* (29 for IEEE-754; scaled down with Prec).
Narrow == 3
\* Largest aux_offset handed to write_with_aux directly.
MaxAuxOffset == 2
\* Longest channel list of a device configuration.
MaxChannels == 3
\* Longest triggers list of a device configuration.
MaxTriggers == 2

(***************************************************************************)
(* Binary floating point: a float is [s, m, e] with value (-1)^s * m * 2^e *)
(* and m = 0 or 2^(p-1) <= m < 2^p, so equal values have equal records.    *)
(***************************************************************************)
VARIABLES
    float_len,  \* byte width of make_float (platform-fixed: 4 or 8)
    args,       \* the constructor call: class and supplied field values
    obj,        \* the constructed object, or NoObject
    pc,         \* "start", "constructed", "failed" or "returned"
    op,         \* the method called last on obj, with its argument
    raised,     \* the exception of the last call, or "none"
    ret         \* the return value of the last method call

vars == << float_len, args, obj, pc, op, raised, ret >>

RECURSIVE Pow2(_)
Pow2(k) == IF k <= 0 THEN 1 ELSE 2 * Pow2(k - 1)

RECURSIVE BitLen(_)
BitLen(n) == IF n = 0 THEN 0 ELSE 1 + BitLen(n \div 2)

FZero == [s |-> 0, m |-> 0, e |-> 0]

\* The significand q of exponent e, renormalised when rounding carried it
\* up to 2^p.
RoundCarry(p, s, q, e) ==
    IF q = Pow2(p) THEN [s |-> s, m |-> Pow2(p - 1), e |-> e + 1]
                   ELSE [s |-> s, m |-> q, e |-> e]

\* Ties to even: q is the kept part, r the dropped part, h half a unit.
RoundUp(q, r, h, sticky) == (r > h) \/ (r = h /\ (sticky \/ q % 2 = 1))

\* n of L bits rounded to p bits.
RoundBits(p, s, n, e, sticky, L) ==
    IF L <= p
    THEN [s |-> s, m |-> n * Pow2(p - L), e |-> e - (p - L)]
    ELSE RoundCarry(p, s,
                    (n \div Pow2(L - p)) +
                    (IF RoundUp(n \div Pow2(L - p), n % Pow2(L - p), Pow2(L - p - 1), sticky)
                     THEN 1 ELSE 0),
                    e + (L - p))

\* n * 2^e (plus, when sticky, a positive amount below one unit of n) rounded
\* to p significant bits, ties to even.
RoundTo(p, s, n, e, sticky) ==
    IF n = 0 THEN FZero ELSE RoundBits(p, s, n, e, sticky, BitLen(n))

\* The float nearest to the integer n.
FInt(n) == IF n < 0 THEN RoundTo(Prec, 1, -n, 0, FALSE)
                    ELSE RoundTo(Prec, 0, n, 0, FALSE)

FMul(a, b) ==
    RoundTo(Prec, (a.s + b.s) % 2, a.m * b.m, a.e + b.e, FALSE)

\* Long division of n * 2^k by d, one bit per step, until the quotient has
\* more than Prec + 1 bits: n * 2^k = q * d + r with r < d.
RECURSIVE LongDiv(_, _, _, _)
LongDiv(q, r, d, k) ==
    IF q >= Pow2(Prec + 1) THEN [q |-> q, r |-> r, k |-> k]
    ELSE IF 2 * r >= d THEN LongDiv(2 * q + 1, 2 * r - d, d, k + 1)
                       ELSE LongDiv(2 * q, 2 * r, d, k + 1)

\* The quotient x of a long division, times 2^e, rounded.
RoundQuotient(s, x, e) == RoundTo(Prec, s, x.q, e - x.k, x.r # 0)

\* n / d * 2^e rounded once (n >= 0, d > 0).
DivRound(s, n, d, e) ==
    IF n = 0 THEN FZero ELSE RoundQuotient(s, LongDiv(n \div d, n % d, d, 0), e)

\* a / b for b # 0.
FDiv(a, b) == DivRound((a.s + b.s) % 2, a.m, b.m, a.e - b.e)

\* The float nearest to the decimal literal n / d (n >= 0, d > 0).
FLit(n, d) == DivRound(0, n, d, 0)

\* The signed integer v such that a = v * 2^e0, for e0 <= a.e.
Scaled(a, e0) ==
    (IF a.s = 1 THEN -1 ELSE 1) * a.m * Pow2(a.e - e0)

MinExp(a, b) ==
    IF a.m = 0 THEN b.e ELSE IF b.m = 0 THEN a.e
    ELSE IF a.e < b.e THEN a.e ELSE b.e

\* The float nearest to v * 2^e0.
FSigned(v, e0) ==
    IF v < 0 THEN RoundTo(Prec, 1, -v, e0, FALSE) ELSE RoundTo(Prec, 0, v, e0, FALSE)

SubAt(a, b, e0) == FSigned(Scaled(a, e0) - Scaled(b, e0), e0)

FSub(a, b) == SubAt(a, b, MinExp(a, b))

LtAt(a, b, e0) == Scaled(a, e0) < Scaled(b, e0)

\* a < b
FLt(a, b) == LtAt(a, b, MinExp(a, b))

FGt(a, b) == FLt(b, a)

(***************************************************************************)
(* Primitive codec (utils/encoding): bytes are integers 0..255.            *)
(***************************************************************************)
\* make_int: 4 bytes, most significant first.
make_int(i) ==
    << (i \div 16777216) % 256, (i \div 65536) % 256, (i \div 256) % 256, i % 256 >>

ZERO_INT == make_int(0)

NULL_INTEGER == make_int(0)

\* make_optional_indexed_bit: an absent line is the zero word, line k is the
\* word with bit k set.  An optional index is <<>> or <<k>>.
make_optional_indexed_bit(bit) ==
    IF bit = <<>> THEN make_int(0) ELSE make_int(Pow2(bit[1]))

\* IEEE-754 single: 1 sign bit, 8 exponent bits (bias 127), 23 fraction bits.
SinglePack(sign, bexp, frac) ==
    << sign * 128 + bexp \div 2,
       (bexp % 2) * 128 + frac \div 65536,
       (frac \div 256) % 256,
       frac % 256 >>

\* The bytes of w, a float of p significant bits.
SingleBytes(w, p) ==
    IF w.m = 0 THEN SinglePack(w.s, 0, 0)
    ELSE SinglePack(w.s, w.e + (p - 1) + 127, (w.m - Pow2(p - 1)) * Pow2(24 - p))

\* A double narrowed to single precision, then packed.
Single(f) ==
    SingleBytes(RoundTo(Prec - Narrow, f.s, f.m, f.e, FALSE), Prec - Narrow)

\* IEEE-754 double: 1 sign bit, 11 exponent bits (bias 1023), 52 fraction
\* bits, of which the model's significand fills the leading Prec - 1.
DoublePack(sign, bexp, frac) ==
    << sign * 128 + bexp \div 16,
       (bexp % 16) * 16 + frac \div 65536,
       (frac \div 256) % 256,
       frac % 256,
       0, 0, 0, 0 >>

Double(f) ==
    IF f.m = 0 THEN DoublePack(f.s, 0, 0)
    ELSE DoublePack(f.s, f.e + (Prec - 1) + 1023, (f.m - Pow2(Prec - 1)) * Pow2(21 - Prec))

make_float(f) == IF float_len = 4 THEN Single(f) ELSE Double(f)

\* a | b on naturals.
RECURSIVE BitOr(_, _)
BitOr(a, b) ==
    IF a = 0 THEN b ELSE IF b = 0 THEN a
    ELSE (IF a % 2 = 1 \/ b % 2 = 1 THEN 1 ELSE 0) + 2 * BitOr(a \div 2, b \div 2)

\* a << k
Shl(a, k) == a * Pow2(k)

(***************************************************************************)
(* Enumerations (enums): member names are strings, .value is the table.    *)
(***************************************************************************)
DAQConfigAlarm == [OFF |-> 0, HI |-> 1, LO |-> 2]

DAQAnalogMeasuremenType ==
    [OFF |-> 0, Ohms |-> 1, Ohms_4Wire |-> 2, VDC |-> 3, VAC |-> 4,
     Frequency |-> 5, RTD |-> 6, Thermocouple |-> 7, Current |-> 8]

DAQComputedMeasurementType == [Average |-> 32769, AminusB |-> 32770, Equation |-> 32772]

DAQOhmsRange == [Ohms_300 |-> 8449, Ohms_3k |-> 8450, Ohms_30k |-> 8451, Ohms_300k |-> 8452]

DAQVDCRange == [VDC_3V |-> 8706, VDC_30V |-> 8707, VDC_AUTO |-> 8709]

DAQVACRange == [VAC_3V |-> 8962, VAC_AUTO |-> 8965]

DAQRTDRange == [RTD_FIXED_385 |-> 9985, RTD_CUSTOM_385 |-> 9986]

DAQThermocoupleRange == [J |-> 24577, K |-> 24578]

DAQCurrentRange == [Current_20mA |-> 12289, Current_100mA |-> 12290]

\* DAQRange of config.py: every range of every measurement type, and NONE.
DAQRange ==
    [NONE |-> 0, Ohms_300 |-> 8449, Ohms_3k |-> 8450, VDC_3V |-> 8706,
     RTD_FIXED_385 |-> 9985, RTD_CUSTOM_385 |-> 9986, J |-> 24577,
     Current_20mA |-> 12289, Current_100mA |-> 12290]

DAQConfigSpeed == [FAST |-> 0, MEDIUM |-> 1, SLOW |-> 2]

DAQConfigBits ==
    [DRIFT_CORRECTION |-> 4, TRIGGER_OUT |-> 8, FAHRENHEIT |-> 16, TOTALIZER_DEBOUNCE |-> 128]

DAQConfigTrigger == [INTERVAL |-> 32, EXTERNAL |-> 64, ALARM |-> 256]

(***************************************************************************)
(* config.py: DAQChannel and its subclasses.  A channel is a record of its *)
(* dataclass fields and its class name cls.                                *)
(***************************************************************************)
NoObject == [cls |-> "None"]

NoReturn == [main |-> <<>>, aux |-> <<>>, bits |-> 0]

\* What a call yields: the exception raised (or "none") and the value returned.
Returned(main, aux) == [raised |-> "none", main |-> main, aux |-> aux]

Raised(exc) == [raised |-> exc, main |-> <<>>, aux |-> <<>>]

alarm_bits(c) ==
    LET result0 == IF c.use_channel_as_alarm_trigger THEN 1 ELSE 0
        result1 == BitOr(result0, Shl(DAQConfigAlarm[c.alarm1_mode], 1))
    IN BitOr(result1, Shl(DAQConfigAlarm[c.alarm2_mode], 3))

write_common_trailer(c) ==
    make_int(alarm_bits(c)) \o
    make_float(c.alarm1_level) \o
    make_float(c.alarm2_level) \o
    make_optional_indexed_bit(c.alarm1_digital) \o
    make_optional_indexed_bit(c.alarm2_digital) \o
    make_float(c.mxab_multuplier) \o
    make_float(c.mxab_offset)

\* DAQChannel.write: the base class has no payload.
DAQChannel_write(c) == Raised("NotImplementedError")

\* Mutant: the Current test is inverted.
extra_bits_current_inverted(c) ==
    IF c.mtype = "Ohms" THEN 36864
    ELSE IF c.mtype = "Ohms_4Wire" \/ c.mtype = "RTD" THEN 36865
    ELSE IF c.mtype = "Thermocouple"
         THEN (IF c.open_thermocouple_detect THEN 1 ELSE 0)
    ELSE IF c.mtype = "Current"
         THEN (IF c.range = "Current_20mA" THEN 28673 ELSE 28672)
    ELSE 0

extra_bits(c) ==
    IF c.mtype = "Ohms" THEN 36864                                   \* 0x9000
    ELSE IF c.mtype = "Ohms_4Wire" \/ c.mtype = "RTD" THEN 36865     \* 0x9001
    ELSE IF c.mtype = "Thermocouple"
         THEN (IF c.open_thermocouple_detect THEN 1 ELSE 0)
    ELSE IF c.mtype = "Current"
         THEN (IF c.range = "Current_20mA" THEN 28672 ELSE 28673)    \* 0x7000, 0x7001
    ELSE 0

DAQAnalogChannel_write(c) ==
    Returned(make_int(DAQAnalogMeasuremenType[c.mtype]) \o
             make_int(DAQRange[c.range]) \o
             make_float(c.aux1) \o
             make_float(c.aux2) \o
             make_int(extra_bits(c)) \o
             write_common_trailer(c), <<>>)

DAQComputedAverageChannel_write(c) ==
    Returned(make_int(DAQComputedMeasurementType.Average) \o
             NULL_INTEGER \o
             NULL_INTEGER \o
             NULL_INTEGER \o
             make_int(c.channel_bitmask) \o
             write_common_trailer(c), <<>>)

DAQComputedAminusBChannel_write(c) ==
    Returned(make_int(DAQComputedMeasurementType.AminusB) \o
             NULL_INTEGER \o
             make_int(c.channel_a) \o
             NULL_INTEGER \o
             make_int(c.channel_b) \o
             write_common_trailer(c), <<>>)

DAQComputedAminusAvgChannel_write(c) ==
    Returned(make_int(DAQComputedMeasurementType.AminusB) \o
             NULL_INTEGER \o
             make_int(c.channel_a) \o
             NULL_INTEGER \o
             make_int(c.channel_bitmask) \o
             write_common_trailer(c), <<>>)

\* Mutant: the offset written is that of the end of the equation.
DAQComputedEquationChannel_write_with_aux_end_offset(c, aux_offset) ==
    Returned(make_int(DAQComputedMeasurementType.Equation) \o
             NULL_INTEGER \o
             NULL_INTEGER \o
             NULL_INTEGER \o
             make_int(aux_offset + Len(c.equation)) \o
             write_common_trailer(c), c.equation)

\* Mutant: one zero slot is missing.
DAQComputedEquationChannel_write_with_aux_short(c, aux_offset) ==
    Returned(make_int(DAQComputedMeasurementType.Equation) \o
             NULL_INTEGER \o
             NULL_INTEGER \o
             make_int(aux_offset) \o
             write_common_trailer(c), c.equation)

DAQComputedEquationChannel_write_with_aux(c, aux_offset) ==
    Returned(make_int(DAQComputedMeasurementType.Equation) \o
             NULL_INTEGER \o
             NULL_INTEGER \o
             NULL_INTEGER \o
             make_int(aux_offset) \o
             write_common_trailer(c), c.equation)

(***************************************************************************)
(* lib/config/channels/analog.py: the analog variants.                     *)
(***************************************************************************)
AnalogClasses ==
    {"DAQAnalogOhmsChannel", "DAQAnalogVDCChannel", "DAQAnalogVACChannel",
     "DAQAnalogFrequencyChannel", "DAQAnalogRTDChannel",
     "DAQAnalogThermocoupleChannel", "DAQAnalogCurrentChannel"}

\* Mutant: the 20 mA scaling is forgotten.
DAQAnalogCurrentChannel_modified_mxab_multiplier_unscaled(c) ==
    FMul(c.mxab_multuplier, FDiv(FInt(1), c.shunt_resistance))

DAQAnalogCurrentChannel_modified_mxab_multiplier(c) ==
    LET modified_multiplier == FMul(c.mxab_multuplier, FDiv(FInt(1), c.shunt_resistance))
    IN IF c.range = "Current_20mA"
       THEN FMul(modified_multiplier, FInt(6250))
       ELSE modified_multiplier

DAQAnalogCurrentChannel_modified_mxab_offset(c) ==
    IF c.range = "Current_20mA" THEN FSub(c.mxab_offset, FInt(25)) ELSE c.mxab_offset

\* The hooks of the analog base class: the raw calibration unless overridden.
modified_mxab_multiplier(c) ==
    IF c.cls = "DAQAnalogCurrentChannel"
    THEN DAQAnalogCurrentChannel_modified_mxab_multiplier(c)
    ELSE c.mxab_multuplier

modified_mxab_offset(c) ==
    IF c.cls = "DAQAnalogCurrentChannel"
    THEN DAQAnalogCurrentChannel_modified_mxab_offset(c)
    ELSE c.mxab_offset

encode_common_trailer(c) ==
    make_int(alarm_bits(c)) \o
    make_float(c.alarm1_level) \o
    make_float(c.alarm2_level) \o
    make_optional_indexed_bit(c.alarm1_digital) \o
    make_optional_indexed_bit(c.alarm2_digital) \o
    make_float(modified_mxab_multiplier(c)) \o
    make_float(modified_mxab_offset(c))

\* Mutant: the 3 kOhm range is not checked.
DAQAnalogOhmsChannel_post_init_300_only(c) ==
    IF (~c.four_wire) /\ c.range = "Ohms_300" THEN "ConfigError" ELSE "none"

DAQAnalogOhmsChannel_post_init(c) ==
    IF (~c.four_wire) /\ (c.range = "Ohms_300" \/ c.range = "Ohms_3k")
    THEN "ConfigError" ELSE "none"

DAQAnalogOhmsChannel_encode(c) ==
    LET extra == IF c.four_wire THEN BitOr(36864, 1) ELSE 36864
    IN Returned(make_int(DAQAnalogMeasuremenType.Ohms) \o
                make_int(DAQOhmsRange[c.range]) \o
                ZERO_INT \o
                ZERO_INT \o
                make_int(extra) \o
                encode_common_trailer(c), <<>>)

DAQAnalogVDCChannel_encode(c) ==
    Returned(make_int(DAQAnalogMeasuremenType.VDC) \o
             make_int(DAQVDCRange[c.range]) \o
             ZERO_INT \o
             ZERO_INT \o
             ZERO_INT \o
             encode_common_trailer(c), <<>>)

DAQAnalogVACChannel_encode(c) ==
    Returned(make_int(DAQAnalogMeasuremenType.VAC) \o
             make_int(DAQVACRange[c.range]) \o
             ZERO_INT \o
             ZERO_INT \o
             ZERO_INT \o
             encode_common_trailer(c), <<>>)

DAQAnalogFrequencyChannel_encode(c) ==
    Returned(make_int(DAQAnalogMeasuremenType.Frequency) \o
             ZERO_INT \o
             ZERO_INT \o
             ZERO_INT \o
             ZERO_INT \o
             encode_common_trailer(c), <<>>)

\* Mutant: the bounds of r0 are exclusive.
DAQAnalogRTDChannel_post_init_exclusive(c) ==
    IF ~FGt(c.r0, FInt(10)) \/ ~FLt(c.r0, FInt(1010)) THEN "ConfigError"
    ELSE IF c.range = "RTD_FIXED_385"
         THEN (IF c.alpha # FZero THEN "ConfigError" ELSE "none")
    ELSE IF c.range = "RTD_CUSTOM_385"
         THEN (IF FLt(c.alpha, FLit(374, 100000)) \/ FGt(c.alpha, FLit(393, 100000))
               THEN "ConfigError" ELSE "none")
    ELSE "none"

DAQAnalogRTDChannel_post_init(c) ==
    IF FLt(c.r0, FInt(10)) \/ FGt(c.r0, FInt(1010)) THEN "ConfigError"
    ELSE IF c.range = "RTD_FIXED_385"
         THEN (IF c.alpha # FZero THEN "ConfigError" ELSE "none")
    ELSE IF c.range = "RTD_CUSTOM_385"
         THEN (IF FLt(c.alpha, FLit(374, 100000)) \/ FGt(c.alpha, FLit(393, 100000))
               THEN "ConfigError" ELSE "none")
    ELSE "none"

\* Mutant: a zero slot follows the two aux floats.
DAQAnalogRTDChannel_encode_extra_slot(c) ==
    Returned(make_int(DAQAnalogMeasuremenType.RTD) \o
             make_int(DAQRTDRange[c.range]) \o
             make_float(c.alpha) \o
             make_float(c.r0) \o
             ZERO_INT \o
             make_int(36865) \o
             encode_common_trailer(c), <<>>)

DAQAnalogRTDChannel_encode(c) ==
    Returned(make_int(DAQAnalogMeasuremenType.RTD) \o
             make_int(DAQRTDRange[c.range]) \o
             make_float(c.alpha) \o
             make_float(c.r0) \o
             make_int(36865) \o
             encode_common_trailer(c), <<>>)

DAQAnalogThermocoupleChannel_encode(c) ==
    LET extra == IF c.open_thermocouple_detect THEN BitOr(0, 1) ELSE 0
    IN Returned(make_int(DAQAnalogMeasuremenType.Thermocouple) \o
                make_int(DAQThermocoupleRange[c.range]) \o
                ZERO_INT \o
                ZERO_INT \o
                make_int(extra) \o
                encode_common_trailer(c), <<>>)

\* Mutant: the upper bound is exclusive.
DAQAnalogCurrentChannel_post_init_exclusive(c) ==
    IF FLt(c.shunt_resistance, FInt(10)) \/ ~FLt(c.shunt_resistance, FInt(250))
    THEN "ConfigError" ELSE "none"

DAQAnalogCurrentChannel_post_init(c) ==
    IF FLt(c.shunt_resistance, FInt(10)) \/ FGt(c.shunt_resistance, FInt(250))
    THEN "ConfigError" ELSE "none"

DAQAnalogCurrentChannel_encode(c) ==
    LET extra == IF c.range = "Current_100mA" THEN BitOr(28672, 1) ELSE 28672
    IN Returned(make_int(DAQAnalogMeasuremenType.Current) \o
                make_int(DAQCurrentRange[c.range]) \o
                make_float(c.shunt_resistance) \o
                ZERO_INT \o
                make_int(extra) \o
                encode_common_trailer(c), <<>>)

\* __post_init__ as the class defines it; a dataclass without one accepts
\* every field value.
post_init(c) ==
    IF c.cls = "DAQAnalogOhmsChannel" THEN DAQAnalogOhmsChannel_post_init(c)
    ELSE IF c.cls = "DAQAnalogRTDChannel" THEN DAQAnalogRTDChannel_post_init(c)
    ELSE IF c.cls = "DAQAnalogCurrentChannel" THEN DAQAnalogCurrentChannel_post_init(c)
    ELSE "none"

\* chan.write() / chan.encode(): the method the object's class resolves to.
write(c) ==
    CASE c.cls = "DAQAnalogChannel"             -> DAQAnalogChannel_write(c)
      [] c.cls = "DAQComputedAverageChannel"    -> DAQComputedAverageChannel_write(c)
      [] c.cls = "DAQComputedAminusBChannel"    -> DAQComputedAminusBChannel_write(c)
      [] c.cls = "DAQComputedAminusAvgChannel"  -> DAQComputedAminusAvgChannel_write(c)
      [] c.cls = "DAQAnalogOhmsChannel"         -> DAQAnalogOhmsChannel_encode(c)
      [] c.cls = "DAQAnalogVDCChannel"          -> DAQAnalogVDCChannel_encode(c)
      [] c.cls = "DAQAnalogVACChannel"          -> DAQAnalogVACChannel_encode(c)
      [] c.cls = "DAQAnalogFrequencyChannel"    -> DAQAnalogFrequencyChannel_encode(c)
      [] c.cls = "DAQAnalogRTDChannel"          -> DAQAnalogRTDChannel_encode(c)
      [] c.cls = "DAQAnalogThermocoupleChannel" -> DAQAnalogThermocoupleChannel_encode(c)
      [] c.cls = "DAQAnalogCurrentChannel"      -> DAQAnalogCurrentChannel_encode(c)
      [] OTHER                                  -> DAQChannel_write(c)

\* DAQChannel.write_with_aux: the payload of write() and no auxiliary bytes.
WithoutAux(w) == IF w.raised # "none" THEN w ELSE Returned(w.main, <<>>)

DAQChannel_write_with_aux(c, aux_offset) == WithoutAux(write(c))

\* Mutant: no class overrides write_with_aux.
write_with_aux_not_overridden(c, aux_offset) == DAQChannel_write_with_aux(c, aux_offset)

\* chan.write_with_aux(aux_offset) / chan.encode_with_aux(aux_offset).
write_with_aux(c, aux_offset) ==
    IF c.cls = "DAQComputedEquationChannel"
    THEN DAQComputedEquationChannel_write_with_aux(c, aux_offset)
    ELSE DAQChannel_write_with_aux(c, aux_offset)

(***************************************************************************)
(* config.py: DAQConfiguration.                                            *)
(***************************************************************************)
RECURSIVE OrTriggers(_, _)
OrTriggers(result, triggers) ==
    IF triggers = <<>> THEN result
    ELSE OrTriggers(BitOr(result, DAQConfigTrigger[Head(triggers)]), Tail(triggers))

\* Mutant: the speed is ignored by the drift-correction test.
bits_drift_flag_only(cfg) ==
    LET r0 == DAQConfigSpeed[cfg.speed]
        r1 == IF cfg.drift_correction
              THEN BitOr(r0, DAQConfigBits.DRIFT_CORRECTION) ELSE r0
        r2 == IF cfg.trigger_out THEN BitOr(r1, DAQConfigBits.TRIGGER_OUT) ELSE r1
        r3 == IF cfg.temperature_fahrenheit THEN BitOr(r2, DAQConfigBits.FAHRENHEIT) ELSE r2
        r4 == IF cfg.totalizer_debounce THEN BitOr(r3, DAQConfigBits.TOTALIZER_DEBOUNCE) ELSE r3
    IN OrTriggers(r4, cfg.triggers)

bits(cfg) ==
    LET r0 == DAQConfigSpeed[cfg.speed]
        r1 == IF cfg.drift_correction \/ cfg.speed # "FAST"
              THEN BitOr(r0, DAQConfigBits.DRIFT_CORRECTION) ELSE r0
        r2 == IF cfg.trigger_out THEN BitOr(r1, DAQConfigBits.TRIGGER_OUT) ELSE r1
        r3 == IF cfg.temperature_fahrenheit THEN BitOr(r2, DAQConfigBits.FAHRENHEIT) ELSE r2
        r4 == IF cfg.totalizer_debounce THEN BitOr(r3, DAQConfigBits.TOTALIZER_DEBOUNCE) ELSE r3
    IN OrTriggers(r4, cfg.triggers)

\* The aggregate's channel order: the analog channels, then the computed ones.
Channels(cfg) == cfg.analog_channels \o cfg.computed_channels

\* The channel loop of the full-frame encoding: each channel is asked for its
\* payloads with the running total of auxiliary bytes as aux_offset.
RECURSIVE EncodeChannels(_, _, _, _)
\* The loop body once the channel at the head has yielded r.
EncodeNext(chans, aux_offset, mains, auxes, r) ==
    IF r.raised # "none" THEN r
    ELSE EncodeChannels(Tail(chans), aux_offset + Len(r.aux),
                        mains \o r.main, auxes \o r.aux)

EncodeChannels(chans, aux_offset, mains, auxes) ==
    IF chans = <<>> THEN Returned(mains, auxes)
    ELSE EncodeNext(chans, aux_offset, mains, auxes,
                    write_with_aux(Head(chans), aux_offset))

\* The frame around the channels' payloads r.
Frame(cfg, r) ==
    IF r.raised # "none" THEN r
    ELSE Returned(make_int(bits(cfg)) \o
                  make_float(cfg.interval_time) \o
                  make_float(cfg.alarm_time) \o
                  r.main \o r.aux, <<>>)

\* bits, the globals, every main payload, then every auxiliary payload.
encode_full_frame(cfg) == Frame(cfg, EncodeChannels(Channels(cfg), 0, <<>>, <<>>))

(***************************************************************************)
(* Inputs: the constructor calls the model draws from.                     *)
(***************************************************************************)
CommonDefault ==
    [use_channel_as_alarm_trigger |-> TRUE,
     alarm1_mode |-> "OFF", alarm2_mode |-> "OFF",
     alarm1_level |-> FZero, alarm2_level |-> FZero,
     alarm1_digital |-> <<>>, alarm2_digital |-> <<>>,
     mxab_multuplier |-> FInt(1), mxab_offset |-> FZero]

Commons ==
    {CommonDefault,
     [CommonDefault EXCEPT !.use_channel_as_alarm_trigger = FALSE,
                           !.alarm1_mode = "HI", !.alarm1_level = FLit(3, 2),
                           !.alarm1_digital = <<3>>],
     [CommonDefault EXCEPT !.alarm1_mode = "LO", !.alarm2_mode = "HI",
                           !.alarm2_level = FInt(-25), !.alarm2_digital = <<0>>,
                           !.mxab_multuplier = FInt(7), !.mxab_offset = FInt(30)]}

\* Calibrations of the Current channels.
Calibrations ==
    {[c EXCEPT !.mxab_multuplier = m, !.mxab_offset = o] :
        c \in {CommonDefault}, m \in {FInt(1), FInt(3), FInt(7)},
        o \in {FZero, FLit(3, 2), FInt(30)}}
    \cup Commons

R0Values == {FInt(5), FLit(99, 10), FInt(10), FInt(100), FInt(1010), FInt(1011)}

AlphaValues ==
    {FZero, FLit(373, 100000), FLit(374, 100000), FLit(385, 100000),
     FLit(393, 100000), FLit(394, 100000)}

ShuntValues ==
    {FLit(99, 10), FInt(10), FInt(25), FInt(100), FInt(250), FLit(2501, 10)}

Domain(f) == DOMAIN f

BaseCalls ==
    {c @@ [cls |-> k] : c \in Commons, k \in {"DAQChannel", "DAQComputedChannel"}}

GenericAnalogCalls ==
    {c @@ [cls |-> "DAQAnalogChannel", mtype |-> t, range |-> r,
           aux1 |-> a[1], aux2 |-> a[2], open_thermocouple_detect |-> d] :
        c \in {CommonDefault}, t \in Domain(DAQAnalogMeasuremenType),
        r \in {"NONE", "Ohms_300", "VDC_3V", "Current_20mA", "Current_100mA"},
        a \in {<<FZero, FZero>>, <<FLit(385, 100000), FInt(100)>>},
        d \in BOOLEAN}

ComputedCalls ==
    {c @@ [cls |-> "DAQComputedAverageChannel", channel_bitmask |-> m] :
        c \in Commons, m \in {0, 3, 65536}}
    \cup
    {c @@ [cls |-> "DAQComputedAminusBChannel", channel_a |-> a, channel_b |-> b] :
        c \in Commons, a \in {0, 1}, b \in {0, 2}}
    \cup
    {c @@ [cls |-> "DAQComputedAminusAvgChannel", channel_a |-> a, channel_bitmask |-> m] :
        c \in Commons, a \in {0, 1}, m \in {0, 3}}
    \cup
    {c @@ [cls |-> "DAQComputedEquationChannel", equation |-> q] :
        c \in Commons, q \in {<<>>, <<7>>, <<1, 2, 3>>}}

AnalogCalls ==
    {c @@ [cls |-> "DAQAnalogOhmsChannel", range |-> r, four_wire |-> w] :
        c \in Commons, r \in Domain(DAQOhmsRange), w \in BOOLEAN}
    \cup
    {c @@ [cls |-> "DAQAnalogVDCChannel", range |-> r] :
        c \in Commons, r \in Domain(DAQVDCRange)}
    \cup
    {c @@ [cls |-> "DAQAnalogVACChannel", range |-> r] :
        c \in Commons, r \in Domain(DAQVACRange)}
    \cup
    {c @@ [cls |-> "DAQAnalogFrequencyChannel"] : c \in Commons}
    \cup
    {c @@ [cls |-> "DAQAnalogRTDChannel", range |-> r, alpha |-> a, r0 |-> z] :
        c \in Commons, r \in Domain(DAQRTDRange), a \in AlphaValues, z \in R0Values}
    \cup
    {c @@ [cls |-> "DAQAnalogThermocoupleChannel", range |-> r,
           open_thermocouple_detect |-> d] :
        c \in Commons, r \in Domain(DAQThermocoupleRange), d \in BOOLEAN}
    \cup
    {c @@ [cls |-> "DAQAnalogCurrentChannel", range |-> r, shunt_resistance |-> z] :
        c \in Calibrations, r \in Domain(DAQCurrentRange), z \in ShuntValues}

ChannelCalls == BaseCalls \cup GenericAnalogCalls \cup ComputedCalls \cup AnalogCalls

ChannelClasses == {c.cls : c \in ChannelCalls}

\* Sequences over S of length at most n.
RECURSIVE SeqsUpTo(_, _)
SeqsUpTo(S, n) ==
    IF n = 0 THEN {<<>>}
    ELSE LET shorter == SeqsUpTo(S, n - 1)
         IN shorter \cup {Append(q, x) : q \in shorter, x \in S}

ConfigDefault ==
    [cls |-> "DAQConfiguration", speed |-> "SLOW", temperature_fahrenheit |-> FALSE,
     trigger_out |-> FALSE, drift_correction |-> TRUE, totalizer_debounce |-> TRUE,
     triggers |-> <<"INTERVAL">>, interval_time |-> FInt(1), alarm_time |-> FInt(1),
     analog_channels |-> <<>>, computed_channels |-> <<>>]

\* Valid channels a configuration is populated with.
ConfigAnalogChannels ==
    {CommonDefault @@ [cls |-> "DAQAnalogChannel", mtype |-> "VDC", range |-> "VDC_3V",
                       aux1 |-> FZero, aux2 |-> FZero, open_thermocouple_detect |-> TRUE],
     CommonDefault @@ [cls |-> "DAQAnalogRTDChannel", range |-> "RTD_CUSTOM_385",
                       alpha |-> FLit(385, 100000), r0 |-> FInt(100)]}

ConfigComputedChannels ==
    {CommonDefault @@ [cls |-> "DAQComputedAverageChannel", channel_bitmask |-> 3]}
    \cup
    {CommonDefault @@ [cls |-> "DAQComputedEquationChannel", equation |-> q] :
        q \in {<<>>, <<7>>, <<1, 2, 3>>}}

\* The channel lists of a configuration: at most MaxChannels channels in all.
ChannelLists ==
    {p \in SeqsUpTo(ConfigAnalogChannels, MaxChannels)
            \X SeqsUpTo(ConfigComputedChannels, MaxChannels) :
        Len(p[1]) + Len(p[2]) <= MaxChannels}

ConfigCalls ==
    {[ConfigDefault EXCEPT !.speed = s, !.temperature_fahrenheit = f, !.trigger_out = o,
                           !.drift_correction = d, !.totalizer_debounce = t,
                           !.triggers = g] :
        s \in Domain(DAQConfigSpeed), f \in BOOLEAN, o \in BOOLEAN, d \in BOOLEAN,
        t \in BOOLEAN, g \in SeqsUpTo(Domain(DAQConfigTrigger), MaxTriggers)}
    \cup
    {[ConfigDefault EXCEPT !.analog_channels = p[1], !.computed_channels = p[2],
                           !.interval_time = i] :
        i \in {FInt(1), FLit(1, 10)}, p \in ChannelLists}

AuxOffsets == 0 .. MaxAuxOffset \cup {258}

(***************************************************************************)
(* The program: construct an object, then call its methods.                *)
(***************************************************************************)
NoCall == [name |-> "none", aux_offset |-> 0]

Init ==
    /\ float_len \in {4, 8}
    /\ args \in ChannelCalls \cup ConfigCalls
    /\ obj = NoObject
    /\ pc = "start"
    /\ op = NoCall
    /\ raised = "none"
    /\ ret = NoReturn

\* A channel constructor: the dataclass stores the supplied fields, then
\* __post_init__ validates them; a ConfigError leaves no object.
NewChannel ==
    /\ pc = "start"
    /\ args.cls \in ChannelClasses
    /\ \E e \in {post_init(args)} :
          /\ raised' = e
          /\ obj' = IF e = "none" THEN args ELSE NoObject
          /\ pc' = IF e = "none" THEN "constructed" ELSE "failed"
    /\ UNCHANGED << float_len, args, op, ret >>

NewConfiguration ==
    /\ pc = "start"
    /\ args.cls = "DAQConfiguration"
    /\ obj' = args
    /\ pc' = "constructed"
    /\ UNCHANGED << float_len, args, op, raised, ret >>

HasObject == pc \in {"constructed", "returned"}

\* chan.write() / chan.encode()
Write ==
    /\ HasObject
    /\ obj.cls \in ChannelClasses
    /\ \E r \in {write(obj)} :
          /\ raised' = r.raised
          /\ ret' = [main |-> r.main, aux |-> r.aux, bits |-> 0]
    /\ op' = [name |-> "write", aux_offset |-> 0]
    /\ pc' = "returned"
    /\ UNCHANGED << float_len, args, obj >>

\* chan.write_with_aux(aux_offset) / chan.encode_with_aux(aux_offset)
WriteWithAux ==
    /\ HasObject
    /\ obj.cls \in ChannelClasses
    /\ \E aux_offset \in AuxOffsets :
          \E r \in {write_with_aux(obj, aux_offset)} :
             /\ raised' = r.raised
             /\ ret' = [main |-> r.main, aux |-> r.aux, bits |-> 0]
             /\ op' = [name |-> "write_with_aux", aux_offset |-> aux_offset]
    /\ pc' = "returned"
    /\ UNCHANGED << float_len, args, obj >>

\* config.bits()
Bits ==
    /\ HasObject
    /\ obj.cls = "DAQConfiguration"
    /\ raised' = "none"
    /\ ret' = [main |-> <<>>, aux |-> <<>>, bits |-> bits(obj)]
    /\ op' = [name |-> "bits", aux_offset |-> 0]
    /\ pc' = "returned"
    /\ UNCHANGED << float_len, args, obj >>

\* The full-frame encoding of the configuration.
EncodeFullFrame ==
    /\ HasObject
    /\ obj.cls = "DAQConfiguration"
    /\ \E r \in {encode_full_frame(obj)} :
          /\ raised' = r.raised
          /\ ret' = [main |-> r.main, aux |-> r.aux, bits |-> 0]
    /\ op' = [name |-> "encode_full_frame", aux_offset |-> 0]
    /\ pc' = "returned"
    /\ UNCHANGED << float_len, args, obj >>

Next ==
    \/ NewChannel
    \/ NewConfiguration
    \/ Write
    \/ WriteWithAux
    \/ Bits
    \/ EncodeFullFrame

Spec == Init /\ [][Next]_vars

(***************************************************************************)
(* Properties.                                                             *)
(***************************************************************************)
\* The last call was one of the payload methods.
EncodeCalled == pc = "returned" /\ op.name \in {"write", "write_with_aux"}

\* ... and it returned.
Encoded == EncodeCalled /\ raised = "none"

\* n bytes of b after the first k.
Field(b, k, n) == SubSeq(b, k + 1, k + n)

\* The calibration fields that end the common trailer.
TrailerMultiplier(b) == Field(b, Len(b) - 2 * float_len, float_len)

TrailerOffset(b) == Field(b, Len(b) - float_len, float_len)

AbstractClasses == {"DAQChannel", "DAQComputedChannel"}

IsCurrent == Encoded /\ obj.cls = "DAQAnalogCurrentChannel"

FrameEncoded == pc = "returned" /\ op.name = "encode_full_frame" /\ raised = "none"

\* The frame's prefix: bits and the two globals.
PrefixLen == 4 + 2 * float_len

IsEquation(c) == c.cls = "DAQComputedEquationChannel"

\* Length of the main payload of channel c.
MainLen(c) == Len(write_with_aux(c, 0).main)

\* Total length of the main payloads of the first n channels.
RECURSIVE MainsBefore(_, _)
MainsBefore(chans, n) ==
    IF n = 0 THEN 0 ELSE MainsBefore(chans, n - 1) + MainLen(chans[n])

\* Total length of the equations of the Equation channels among the first n.
RECURSIVE EquationsBefore(_, _)
EquationsBefore(chans, n) ==
    IF n = 0 THEN 0
    ELSE EquationsBefore(chans, n - 1) +
         (IF IsEquation(chans[n]) THEN Len(chans[n].equation) ELSE 0)

\* The equations of the Equation channels among the first n, concatenated.
RECURSIVE EquationBytes(_, _)
EquationBytes(chans, n) ==
    IF n = 0 THEN <<>>
    ELSE EquationBytes(chans, n - 1) \o
         (IF IsEquation(chans[n]) THEN chans[n].equation ELSE <<>>)

\* C3: in the full frame the main payloads follow the prefix contiguously in
\* channel order, the aux-offset field of each Equation channel is the total
\* length of the equations of the Equation channels before it, and the
\* equations follow the main payloads, concatenated in channel order.
C3_FrameLayout ==
    FrameEncoded =>
        /\ \A i \in 1 .. Len(Channels(obj)) :
              /\ Field(ret.main, PrefixLen + MainsBefore(Channels(obj), i - 1),
                       MainLen(Channels(obj)[i]))
                   = write_with_aux(Channels(obj)[i],
                                    EquationsBefore(Channels(obj), i - 1)).main
              /\ IsEquation(Channels(obj)[i]) =>
                    Field(ret.main, PrefixLen + MainsBefore(Channels(obj), i - 1) + 16, 4)
                      = <<0, 0, 0, EquationsBefore(Channels(obj), i - 1)>>
        /\ Len(ret.main) = PrefixLen + MainsBefore(Channels(obj), Len(Channels(obj)))
                                     + EquationsBefore(Channels(obj), Len(Channels(obj)))
        /\ Field(ret.main, PrefixLen + MainsBefore(Channels(obj), Len(Channels(obj))),
                 EquationsBefore(Channels(obj), Len(Channels(obj))))
             = EquationBytes(Channels(obj), Len(Channels(obj)))

C3_Witness ==
    /\ FrameEncoded
    /\ Len(obj.analog_channels) = 1
    /\ Len(obj.computed_channels) = 2
    /\ IsEquation(obj.computed_channels[1])
    /\ IsEquation(obj.computed_channels[2])
    /\ obj.computed_channels[1].equation = <<1, 2, 3>>
    /\ obj.computed_channels[2].equation = <<7>>
    /\ Field(ret.main, Len(ret.main) - 4, 4) = <<1, 2, 3, 7>>

BitsCalled == pc = "returned" /\ op.name = "bits"

\* Bit b (a power of two) is set in n.
HasBit(n, b) == (n \div b) % 2 = 1

Range(q) == {q[i] : i \in DOMAIN q}

RECURSIVE Sum(_)
Sum(S) == IF S = {} THEN 0 ELSE LET x == CHOOSE y \in S : TRUE IN x + Sum(S \ {x})

\* C4: bits() carries the drift-correction bit exactly when drift_correction
\* is set or the speed is not FAST, and besides it the speed code, the bits
\* of the flags that are set and the code of every trigger listed.
C4_Bits ==
    BitsCalled =>
        /\ HasBit(ret.bits, DAQConfigBits.DRIFT_CORRECTION) <=>
              (obj.drift_correction \/ obj.speed # "FAST")
        /\ (obj.speed = "FAST" /\ ~obj.drift_correction) =>
              ~HasBit(ret.bits, DAQConfigBits.DRIFT_CORRECTION)
        /\ ret.bits =
              DAQConfigSpeed[obj.speed]
              + (IF obj.drift_correction \/ obj.speed # "FAST"
                 THEN DAQConfigBits.DRIFT_CORRECTION ELSE 0)
              + (IF obj.trigger_out THEN DAQConfigBits.TRIGGER_OUT ELSE 0)
              + (IF obj.temperature_fahrenheit THEN DAQConfigBits.FAHRENHEIT ELSE 0)
              + (IF obj.totalizer_debounce THEN DAQConfigBits.TOTALIZER_DEBOUNCE ELSE 0)
              + Sum({DAQConfigTrigger[t] : t \in Range(obj.triggers)})

C4_Witness ==
    /\ BitsCalled
    /\ obj.speed = "FAST"
    /\ ~obj.drift_correction
    /\ obj.trigger_out /\ obj.temperature_fahrenheit /\ obj.totalizer_debounce
    /\ obj.triggers = <<"ALARM", "ALARM">>
    /\ ret.bits = 408

Constructing(cls) == args.cls = cls /\ pc # "start"

\* C5: an RTD channel is rejected with a ConfigError exactly when r0 < 10 or
\* r0 > 1010, or the range is fixed-385 and alpha is not 0.0, or the range is
\* custom-385 and alpha is outside [0.00374, 0.00393]; otherwise it is
\* constructed holding the supplied r0 and alpha.
C5_RTDValidation ==
    Constructing("DAQAnalogRTDChannel") =>
        /\ pc = "failed" <=>
              \/ FLt(args.r0, FInt(10))
              \/ FGt(args.r0, FInt(1010))
              \/ args.range = "RTD_FIXED_385" /\ args.alpha # FZero
              \/ /\ args.range = "RTD_CUSTOM_385"
                 /\ \/ FLt(args.alpha, FLit(374, 100000))
                    \/ FGt(args.alpha, FLit(393, 100000))
        /\ pc = "failed" => raised = "ConfigError" /\ obj = NoObject
        /\ pc # "failed" => obj.r0 = args.r0 /\ obj.alpha = args.alpha
        /\ (args.r0 \in {FInt(10), FInt(1010)} /\ args.range = "RTD_CUSTOM_385"
               /\ args.alpha \in {FLit(374, 100000), FLit(393, 100000)})
              => pc # "failed"
        /\ (args.range = "RTD_CUSTOM_385" /\ args.alpha = FLit(373, 100000))
              => pc = "failed"

C5_Witness ==
    /\ Constructing("DAQAnalogRTDChannel")
    /\ pc = "constructed"
    /\ obj.range = "RTD_CUSTOM_385"
    /\ obj.alpha = FLit(393, 100000)
    /\ obj.r0 = FInt(1010)

\* C6: an Ohms channel is rejected with a ConfigError exactly when four_wire
\* is false and the range is 300 Ohm or 3 kOhm.
C6_OhmsValidation ==
    Constructing("DAQAnalogOhmsChannel") =>
        /\ pc = "failed" <=>
              (~args.four_wire /\ args.range \in {"Ohms_300", "Ohms_3k"})
        /\ pc = "failed" => raised = "ConfigError" /\ obj = NoObject

C6_Witness ==
    /\ Constructing("DAQAnalogOhmsChannel")
    /\ pc = "constructed"
    /\ obj.four_wire
    /\ obj.range = "Ohms_300"

\* C7: a Current channel is rejected with a ConfigError exactly when
\* shunt_resistance < 10 or shunt_resistance > 250, whatever the range and
\* the calibration.
C7_CurrentValidation ==
    Constructing("DAQAnalogCurrentChannel") =>
        /\ pc = "failed" <=>
              (FLt(args.shunt_resistance, FInt(10)) \/ FGt(args.shunt_resistance, FInt(250)))
        /\ pc = "failed" => raised = "ConfigError" /\ obj = NoObject
        /\ args.shunt_resistance \in {FInt(10), FInt(250)} => pc # "failed"
        /\ args.shunt_resistance = FLit(99, 10) => pc = "failed"

C7_Witness ==
    /\ Constructing("DAQAnalogCurrentChannel")
    /\ pc = "failed"
    /\ raised = "ConfigError"
    /\ args.shunt_resistance = FLit(99, 10)
    /\ args.range = "Current_100mA"

WithAuxReturned == pc = "returned" /\ op.name = "write_with_aux" /\ raised = "none"

\* C8: write_with_aux of an Equation channel returns the equation bytes
\* unmodified beside the payload (Equation code, three zero ints, aux_offset,
\* common trailer); of every other variant it returns the payload of write()
\* and no auxiliary bytes, whatever aux_offset.
C8_WriteWithAux ==
    WithAuxReturned =>
        IF IsEquation(obj)
        THEN /\ ret.aux = obj.equation
             /\ ret.main = make_int(DAQComputedMeasurementType.Equation)
                           \o <<0, 0, 0, 0>> \o <<0, 0, 0, 0>> \o <<0, 0, 0, 0>>
                           \o make_int(op.aux_offset)
                           \o write_common_trailer(obj)
        ELSE /\ ret.aux = <<>>
             /\ ret.main = write(obj).main

C8_Witness ==
    /\ WithAuxReturned
    /\ IsEquation(obj)
    /\ op.aux_offset = 258
    /\ ret.aux = <<1, 2, 3>>
    /\ Field(ret.main, 16, 4) = <<0, 0, 1, 2>>

\* The channel variants: the analog ones and the computed ones.
Variants ==
    AnalogClasses \cup
    {"DAQComputedAverageChannel", "DAQComputedAminusBChannel",
     "DAQComputedAminusAvgChannel", "DAQComputedEquationChannel"}

\* A valid VDC channel, whose aux slots are zero-filled with ZERO_INT.
ReferenceVDC == CommonDefault @@ [cls |-> "DAQAnalogVDCChannel", range |-> "VDC_3V"]

\* The aux slots the class fills with a float.
FloatSlots(cls) ==
    IF cls \in {"DAQAnalogRTDChannel", "DAQAnalogChannel"} THEN 2
    ELSE IF cls = "DAQAnalogCurrentChannel" THEN 1
    ELSE 0

LayoutExtraBits(kind, c) ==
    CASE kind = "Ohms"         -> 36864
      [] kind = "Ohms_4Wire"   -> 36865
      [] kind = "RTD"          -> 36865
      [] kind = "Thermocouple" -> IF c.open_thermocouple_detect THEN 1 ELSE 0
      [] kind = "Current"      -> IF c.range = "Current_100mA" THEN 28673 ELSE 28672
      [] OTHER                 -> 0

\* The measurement type and sub-mode an analog.py object stands for.
KindOf(c) ==
    CASE c.cls = "DAQAnalogOhmsChannel"         -> IF c.four_wire THEN "Ohms_4Wire" ELSE "Ohms"
      [] c.cls = "DAQAnalogVDCChannel"          -> "VDC"
      [] c.cls = "DAQAnalogVACChannel"          -> "VAC"
      [] c.cls = "DAQAnalogFrequencyChannel"    -> "Frequency"
      [] c.cls = "DAQAnalogRTDChannel"          -> "RTD"
      [] c.cls = "DAQAnalogThermocoupleChannel" -> "Thermocouple"
      [] c.cls = "DAQAnalogCurrentChannel"      -> "Current"
      [] c.cls = "DAQAnalogChannel"             -> c.mtype

\* Where the fifth field starts.
ExtraBitsAt(c) == 8 + FloatSlots(c.cls) * float_len + (2 - FloatSlots(c.cls)) * 4

\* A generic DAQAnalogChannel that corresponds to a variant of analog.py: a
\* Current one carries one of the two current ranges.
Corresponds(c) ==
    c.cls = "DAQAnalogChannel" /\ c.mtype = "Current"
        => c.range \in {"Current_20mA", "Current_100mA"}

\* C10: the fifth field of every analog payload is the layout table's value,
\* for the variants of analog.py and for the generic DAQAnalogChannel of
\* config.py alike.
C10_ExtraBits ==
    (Encoded /\ obj.cls \in AnalogClasses \cup {"DAQAnalogChannel"} /\ Corresponds(obj)) =>
        /\ Field(ret.main, ExtraBitsAt(obj), 4) = make_int(LayoutExtraBits(KindOf(obj), obj))
        /\ obj.cls = "DAQAnalogChannel" =>
              extra_bits(obj) = LayoutExtraBits(obj.mtype, obj)

C10_Witness ==
    /\ Encoded
    /\ obj.cls = "DAQAnalogChannel"
    /\ obj.mtype = "Current"
    /\ obj.range = "Current_100mA"
    /\ Field(ret.main, ExtraBitsAt(obj), 4) = <<0, 0, 112, 1>>

====
